---- MODULE Spec2Model ----
(***************************************************************************)
(* Stellar Cycle (src/script.js): the scene state machine, the owned Star, *)
(* the Universe's particle collections and effects, and the handlers that  *)
(* the browser runs one at a time: the per-frame draw(), the three button  *)
(* click listeners, mousePressed() and the setTimeout callback.            *)
(*                                                                         *)
(* Numbers are fixed-point integers:                                       *)
(*   star size / targetSize      in hundredths  (0.1 per tick  = 10)       *)
(*   particle and dwarf alpha    in tenths      (1 per tick    = 10)       *)
(*   shakeAmount                 in thousandths (0.1 threshold = 100)      *)
(* Positions, velocities and sizes of particles are used by the rendering  *)
(* only; the one place where a position decides a branch (dist < 5 in      *)
(* Particle.update) is kept as the particle's 'captured' flag.             *)
(* p5's random() is a choice from a small set in the action that draws it. *)
(***************************************************************************)
EXTENDS Integers, Sequences, FiniteSets, TLC

VARIABLES
    currentState,    \* let currentState                         (script.js:7)
    targetPos,       \* let targetPos: Null or Some(position)    (script.js:8)
    screens,         \* which screen elements carry class 'active'
    universe,        \* the Universe object, targetStar included (script.js:225)
    endMessage,      \* innerText of #end-message                (script.js:565)
    formationTimer,  \* this.formationTimer of draw(); 0 = unset (script.js:515)
    pending,         \* number of setTimeout callbacks not yet run (script.js:530)
    uncaught,        \* the last handler ended in an uncaught TypeError
    log,             \* history: changeState calls <<from, to>> of the last handler
    path,            \* history: states entered since the last Star construction
    handoffs,        \* history: timeout callbacks run since SELECT_POSITION was entered
    sweep,           \* history: Particle.update/draw calls of the last frame
    handler,         \* history: the handler that ran last
    starsMade,       \* history: number of Star constructions
    idle,            \* history: frames drawn since the last user event or callback
                     \*          while the scene waits for the user
    tick             \* history: parity of the frames drawn since then

vars == <<currentState, targetPos, screens, universe, endMessage, formationTimer,
          pending, uncaught, log, path, handoffs, sweep, handler, starsMade, idle, tick>>

-----------------------------------------------------------------------------
(* Bounds of the model *)

\* canvas clicks whose callbacks may be outstanding at once
MaxPending == 2
\* Star constructions in one run
MaxStars == 2
\* frames drawn while the scene waits for the user (INIT, SELECT_POSITION,
\* SET_PARAMETERS, END) before the next user event or callback
MaxIdle == 1
\* the same, for the run without further user events
AutoIdle == 110
\* particles per initDustParticles call (400 in the code)
DustCount == 2
\* particles per death burst (200 to 800 in the code)
EffectCount == 2
\* remnants per createRemnant call (150 in the code)
RemnantCount == 1

-----------------------------------------------------------------------------
(* null / undefined *)

Null == <<>>
Some(v) == <<v>>
Val(x) == x[1]

STATES == {"INIT", "SELECT_POSITION", "SET_PARAMETERS", "BIG_BANG",
           "STAR_FORMATION", "OBSERVATION", "END"}

\* the keys setup() stores in screens
ScreenKeys == {"INIT", "SELECT_POSITION", "SET_PARAMETERS", "OBSERVATION", "END"}

\* p5 map(n, a, b, c, d) on integers, rounded down
Map(n, a, b, c, d) == c + ((n - a) * (d - c)) \div (b - a)

\* p5 lerp(a, b, 0.15)
Lerp15(a, b) == a + ((b - a) * 15) \div 100

-----------------------------------------------------------------------------
(* Star *)

CalculateStarColor(mass, heritageColor) ==
    LET rgb == IF mass > 70
                 THEN [r |-> Map(mass, 70, 100, 220, 180),
                       g |-> Map(mass, 70, 100, 230, 210),
                       b |-> 255]
               ELSE IF mass > 40
                 THEN [r |-> 255, g |-> 255, b |-> Map(mass, 40, 70, 200, 255)]
               ELSE [r |-> 255,
                     g |-> Map(mass, 0, 40, 80, 180),
                     b |-> Map(mass, 0, 40, 50, 100)]
    IN  IF heritageColor # Null
          THEN [r |-> Lerp15(rgb.r, Val(heritageColor).r),
                g |-> Lerp15(rgb.g, Val(heritageColor).g),
                b |-> Lerp15(rgb.b, Val(heritageColor).b)]
          ELSE rgb

\* NewStar with the life range mapped downwards: 2000 at mass 0, 800 at mass 100
NewStarInverted(pos, mass, instability, heritageColor, serial) ==
    [pos |-> pos,
     mass |-> mass,
     instability |-> instability,
     size |-> 0,
     targetSize |-> 1500 + 45 * mass,
     currentAlpha |-> 0,
     maxAlpha |-> 255,
     life |-> 2000 - 12 * mass,
     isDying |-> FALSE,
     exploded |-> FALSE,
     dead |-> FALSE,
     baseColor |-> CalculateStarColor(mass, heritageColor),
     serial |-> serial,
     endRequests |-> 0,
     branches |-> <<>>]

\* new Star(x, y, mass, instability); serial, endRequests and branches are
\* history fields: the Star's number, its changeState(END) calls, and the
\* death-branch operations of the Universe it has called
NewStar(pos, mass, instability, heritageColor, serial) ==
    [pos |-> pos,
     mass |-> mass,
     instability |-> instability,
     size |-> 0,
     targetSize |-> 1500 + 45 * mass,
     currentAlpha |-> 0,
     maxAlpha |-> 255,
     life |-> 800 + 12 * mass,
     isDying |-> FALSE,
     exploded |-> FALSE,
     dead |-> FALSE,
     baseColor |-> CalculateStarColor(mass, heritageColor),
     serial |-> serial,
     endRequests |-> 0,
     branches |-> <<>>]

-----------------------------------------------------------------------------
(* Particle *)

\* new Particle(x, y, options); id and seeking are history fields
NewParticle(id, alpha, lifeDecay, isNebula) ==
    [id |-> id, alpha |-> alpha, lifeDecay |-> lifeDecay, isNebula |-> isNebula,
     captured |-> FALSE, seeking |-> FALSE]

\* Particle.update() in scene state st. near: the particle, having moved since
\* its last update, is within the capture radius of the star (dist < 5); a
\* captured particle was within it at its last update and has not moved since.
\* seeking records that the last update was a STAR_FORMATION update
ParticleUpdate(p, st, near) ==
    IF st = "STAR_FORMATION"
      THEN IF p.captured \/ near
             THEN [p EXCEPT !.alpha = @ - 80, !.captured = TRUE, !.seeking = TRUE]
             ELSE [p EXCEPT !.seeking = TRUE]
      ELSE [p EXCEPT !.alpha = @ - p.lifeDecay, !.captured = FALSE,
                     !.seeking = FALSE]

\* Particle.draw(): TRUE iff the disc is rendered
ParticleDraw(p) == ~(p.alpha <= 0)

-----------------------------------------------------------------------------
(* Universe *)

\* new Universe(): whiteDwarf, supernovaFlash and bigBangTimer are not set by
\* the constructor; undefined is Null for the object and 0 for the two numbers
\* (the code only compares them with > 0 and <= 0 after setting them).
\* bgStars: two of the 200 static stars, alpha at the ends of random(50, 150)
NewUniverse ==
    [bgStars |-> <<[alpha |-> 50], [alpha |-> 150]>>,
     dustParticles |-> <<>>,
     effectParticles |-> <<>>,
     remnants |-> <<>>,
     targetStar |-> Null,
     shakeAmount |-> 0,
     heritageColor |-> Null,
     bgBrightness |-> 10,
     blackHoleEffect |-> Null,
     whiteDwarf |-> Null,
     supernovaFlash |-> 0,
     bigBangTimer |-> 0]

\* shake(amount), amount in whole units
Shake(u, amount) == [u EXCEPT !.shakeAmount = amount * 1000]

\* DecayShake without the clamp to 0 below 0.1
DecayShakeNoClamp(s) == IF s > 0 THEN (s * 94) \div 100 ELSE s

\* the shake block of Universe.draw: *= 0.94, then 0 below 0.1
DecayShake(s) ==
    IF s > 0
      THEN LET t == (s * 94) \div 100
           IN  IF t < 100 THEN 0 ELSE t
      ELSE s

\* initDustParticles(): alphas[i] is the i-th particle's random(100, 255)
InitDustParticles(u, alphas) ==
    [u EXCEPT !.dustParticles =
        [i \in 1..DustCount |-> NewParticle(i, alphas[i], 10, FALSE)]]

\* createRemnant(x, y, starColor, duration)
CreateRemnant(u, starColor, duration) ==
    [u EXCEPT !.remnants = @ \o
        [i \in 1..RemnantCount |-> [color |-> starColor, life |-> duration]]]

\* the particles one death burst pushes: rnd.a[i], rnd.d[i] in {0, 1} pick the
\* low or high end of random(100, 255) and of the burst's lifeDecay range
Burst(star, rnd, decayLow, decayHigh, isNebula) ==
    [i \in 1..EffectCount |->
        NewParticle(<<star.serial, i>>,
                    IF rnd.a[i] = 0 THEN 1000 ELSE 2550,
                    IF rnd.d[i] = 0 THEN decayLow ELSE decayHigh,
                    isNebula)]

Supernova(u, star, rnd) ==
    LET u1 == [Shake(u, 30) EXCEPT
                  !.supernovaFlash = 100,
                  !.effectParticles = @ \o Burst(star, rnd, 5, 15, FALSE)]
    IN  [CreateRemnant(u1, star.baseColor, 1200) EXCEPT !.bgBrightness = 25]

GravityCollapse(u, star, rnd) ==
    LET u1 == [Shake(u, 50) EXCEPT
                  !.blackHoleEffect = Some([size |-> 0, targetSize |-> 80, alpha |-> 255]),
                  !.effectParticles = @ \o Burst(star, rnd, 20, 20, FALSE)]
    IN  CreateRemnant(u1, star.baseColor, 1500)

NebulaRelease(u, star, rnd) ==
    LET u1 == [u EXCEPT
                  !.effectParticles = @ \o Burst(star, rnd, 2, 5, TRUE),
                  !.whiteDwarf = Some([size |-> 8, alpha |-> 2550])]
    IN  CreateRemnant(u1, star.baseColor, 1000)

\* DeathBranch with the upper threshold compared by >=
DeathBranchInclusive(mass) ==
    IF mass >= 85 THEN "gravityCollapse"
    ELSE IF mass > 40 THEN "supernova"
    ELSE "nebulaRelease"

\* the death branch Star.handleEndSequence takes
DeathBranch(mass) ==
    IF mass > 85 THEN "gravityCollapse"
    ELSE IF mass > 40 THEN "supernova"
    ELSE "nebulaRelease"

\* HandleEndSequence that leaves exploded and dead unset
HandleEndSequenceNoFlags(u, rnd) ==
    LET star == Val(u.targetStar)
        br   == DeathBranch(star.mass)
        u1   == IF br = "gravityCollapse" THEN GravityCollapse(u, star, rnd)
                ELSE IF br = "supernova" THEN Supernova(u, star, rnd)
                ELSE NebulaRelease(u, star, rnd)
        s1   == [star EXCEPT !.branches = Append(@, br)]
    IN  [u1 EXCEPT !.targetStar = Some(s1), !.heritageColor = Some(star.baseColor)]

\* Star.handleEndSequence() of the owned Star
HandleEndSequence(u, rnd) ==
    LET star == Val(u.targetStar)
        br   == DeathBranch(star.mass)
        u1   == IF br = "gravityCollapse" THEN GravityCollapse(u, star, rnd)
                ELSE IF br = "supernova" THEN Supernova(u, star, rnd)
                ELSE NebulaRelease(u, star, rnd)
        s1   == [star EXCEPT !.exploded = TRUE, !.dead = TRUE,
                             !.branches = Append(@, br)]
    IN  [u1 EXCEPT !.targetStar = Some(s1), !.heritageColor = Some(star.baseColor)]

-----------------------------------------------------------------------------
(* The program state the handlers work on *)

\* the variables a handler reads and writes, as one record
Program ==
    [currentState |-> currentState, screens |-> screens, universe |-> universe,
     endMessage |-> endMessage, formationTimer |-> formationTimer,
     uncaught |-> uncaught, log |-> log, path |-> path, handoffs |-> handoffs,
     sweep |-> sweep]

\* the result g of handler h becomes the next state
Becomes(g, h) ==
    /\ handler' = h
    /\ currentState' = g.currentState
    /\ screens' = g.screens
    /\ universe' = g.universe
    /\ endMessage' = g.endMessage
    /\ formationTimer' = g.formationTimer
    /\ uncaught' = g.uncaught
    /\ log' = g.log
    /\ path' = g.path
    /\ handoffs' = g.handoffs
    /\ sweep' = g.sweep

\* a handler starts with empty call histories and no error
Enter(g) == [g EXCEPT !.log = <<>>, !.sweep = <<>>, !.uncaught = FALSE]

\* EndMessageFor with the lower threshold compared by >=
EndMessageForInclusive(mass) ==
    IF mass > 85 THEN "MSG_DUTY"
    ELSE IF mass >= 40 THEN "MSG_SEEDS"
    ELSE "MSG_QUIET"

\* the end-of-life message changeState(END) selects:
\* MSG_DUTY "its role is over", MSG_SEEDS "sowed new seeds", MSG_QUIET "returned quietly"
EndMessageFor(mass) ==
    IF mass > 85 THEN "MSG_DUTY"
    ELSE IF mass > 40 THEN "MSG_SEEDS"
    ELSE "MSG_QUIET"

\* changeState, lines 537-545: the old screen loses 'active', currentState is
\* assigned, the new screen gains 'active'; log, path and handoffs are history
SwitchScreen(g, newState) ==
    [g EXCEPT
       !.screens = [s \in ScreenKeys |->
                       IF s = newState THEN TRUE
                       ELSE IF s = g.currentState THEN FALSE
                       ELSE g.screens[s]],
       !.currentState = newState,
       !.log = Append(@, <<g.currentState, newState>>),
       !.path = Append(@, newState),
       !.handoffs = IF newState = "SELECT_POSITION" THEN 0 ELSE @]

\* changeState, BIG_BANG block; initDustParticles empties the collection and
\* then reads targetStar.pos, which throws without a Star
EnterBigBang(g, alphas) ==
    IF g.universe.targetStar = Null
      THEN [g EXCEPT
              !.universe = [Shake([@ EXCEPT !.bigBangTimer = 80], 15)
                               EXCEPT !.dustParticles = <<>>],
              !.uncaught = TRUE]
      ELSE [g EXCEPT
              !.universe = InitDustParticles(Shake([@ EXCEPT !.bigBangTimer = 80], 15),
                                             alphas)]

\* changeState, END block; targetStar.mass throws without a Star
EnterEnd(g) ==
    IF g.universe.targetStar = Null
      THEN [g EXCEPT !.uncaught = TRUE]
      ELSE [g EXCEPT !.endMessage = EndMessageFor(Val(g.universe.targetStar).mass)]

\* changeState(newState); alphas: the random alphas initDustParticles draws
ChangeState(g, newState, alphas) ==
    IF newState = "BIG_BANG" THEN EnterBigBang(SwitchScreen(g, newState), alphas)
    ELSE IF newState = "END" THEN EnterEnd(SwitchScreen(g, newState))
    ELSE SwitchScreen(g, newState)

\* no dust is drawn by this changeState call
NoDust == [i \in 1..DustCount |-> 0]

-----------------------------------------------------------------------------
(* Star.update and Star.draw of the owned Star *)

StarUpdate(g) ==
    LET star == Val(g.universe.targetStar)
    IN  IF g.currentState = "STAR_FORMATION"
          THEN LET s1 == IF star.size < star.targetSize
                           THEN [star EXCEPT !.size = @ + 10] ELSE star
                   s2 == IF s1.currentAlpha < s1.maxAlpha
                           THEN [s1 EXCEPT !.currentAlpha = @ + 2] ELSE s1
               IN  [g EXCEPT !.universe.targetStar = Some(s2)]
        ELSE IF g.currentState = "OBSERVATION"
          THEN LET s1 == [star EXCEPT !.life = @ - 1]
               IN  IF s1.life <= 0
                     THEN ChangeState(
                            [g EXCEPT !.universe.targetStar =
                                Some([s1 EXCEPT !.isDying = TRUE,
                                                !.endRequests = @ + 1])],
                            "END", NoDust)
                     ELSE [g EXCEPT !.universe.targetStar = Some(s1)]
        ELSE g

\* rnd: the random draws of the death burst
StarDraw(g, rnd) ==
    LET star == Val(g.universe.targetStar)
    IN  IF star.dead THEN g
        ELSE IF g.currentState = "END" /\ ~star.exploded
          THEN [g EXCEPT !.universe = HandleEndSequence(@, rnd)]
        ELSE g

-----------------------------------------------------------------------------
(* Universe.draw *)

\* ps without its i-th element: ps.splice(i, 1)
Splice(ps, i) == [j \in 1..(Len(ps) - 1) |-> IF j < i THEN ps[j] ELSE ps[j + 1]]

\* the remnant loop: for (i = length - 1; i >= 0; i--) { life--; splice if <= 0 }
RECURSIVE RemnantLoop(_, _)
RemnantLoop(rs, i) ==
    IF i < 1 THEN rs
    ELSE LET r   == [rs[i] EXCEPT !.life = @ - 1]
             rs1 == [rs EXCEPT ![i] = r]
         IN  RemnantLoop(IF r.life <= 0 THEN Splice(rs1, i) ELSE rs1, i - 1)

\* ParticleLoop iterating forward, i++ after a splice too: the element that
\* moves into a removed slot is skipped
RECURSIVE ForwardLoop(_, _, _, _, _, _)
ForwardLoop(ps, i, st, near, coll, calls) ==
    IF i > Len(ps) THEN [ps |-> ps, calls |-> calls]
    ELSE LET p   == ParticleUpdate(ps[i], st, ps[i].id \in near)
             ps1 == [ps EXCEPT ![i] = p]
             c   == [coll |-> coll, id |-> p.id, before |-> ps[i].alpha,
                     alpha |-> p.alpha, drawn |-> ParticleDraw(p)]
         IN  ForwardLoop(IF p.alpha <= 0 THEN Splice(ps1, i) ELSE ps1,
                         i + 1, st, near, coll, Append(calls, c))

ParticleLoopForward(ps, i, st, near, coll, calls) ==
    ForwardLoop(ps, 1, st, near, coll, calls)

\* a particle loop: for (i = length - 1; i >= 0; i--) { update; draw; splice if
\* alpha <= 0 }. near: the ids of the particles found within the capture radius.
\* Returns the collection and the calls made, in order
RECURSIVE ParticleLoop(_, _, _, _, _, _)
ParticleLoop(ps, i, st, near, coll, calls) ==
    IF i < 1 THEN [ps |-> ps, calls |-> calls]
    ELSE LET p   == ParticleUpdate(ps[i], st, ps[i].id \in near)
             ps1 == [ps EXCEPT ![i] = p]
             c   == [coll |-> coll, id |-> p.id, before |-> ps[i].alpha,
                     alpha |-> p.alpha, drawn |-> ParticleDraw(p)]
         IN  ParticleLoop(IF p.alpha <= 0 THEN Splice(ps1, i) ELSE ps1,
                          i - 1, st, near, coll, Append(calls, c))

WhiteDwarfStep(w) ==
    IF w # Null THEN Some([Val(w) EXCEPT !.alpha = @ - 5]) ELSE w

BlackHoleStep(b) ==
    IF b # Null
      THEN IF Val(b).size < Val(b).targetSize
             THEN Some([Val(b) EXCEPT !.size = @ + 4])
             ELSE Some([Val(b) EXCEPT !.alpha = @ - 2])
      ELSE b

\* Universe.draw, up to the particle sweeps: shake decay, remnants, white
\* dwarf, black hole
DrawEffects(g) ==
    [g EXCEPT
       !.universe.shakeAmount = DecayShake(@),
       !.universe.remnants = RemnantLoop(@, Len(@)),
       !.universe.whiteDwarf = WhiteDwarfStep(@),
       !.universe.blackHoleEffect = BlackHoleStep(@)]

\* the sweep over dustParticles; near: the ids found within the capture radius
DrawDust(g, near) ==
    LET d == ParticleLoop(g.universe.dustParticles, Len(g.universe.dustParticles),
                          g.currentState, near, "dust", g.sweep)
    IN  [g EXCEPT !.universe.dustParticles = d.ps, !.sweep = d.calls]

\* the sweep over effectParticles
DrawEffectParticles(g, near) ==
    LET e == ParticleLoop(g.universe.effectParticles, Len(g.universe.effectParticles),
                          g.currentState, near, "effect", g.sweep)
    IN  [g EXCEPT !.universe.effectParticles = e.ps, !.sweep = e.calls]

\* DrawStar that draws the Star before it updates it
DrawStarDrawFirst(g, rnd) ==
    IF g.universe.targetStar # Null THEN StarUpdate(StarDraw(g, rnd)) ELSE g

\* if (this.targetStar) { update(); draw(); }
DrawStar(g, rnd) ==
    IF g.universe.targetStar # Null THEN StarDraw(StarUpdate(g), rnd) ELSE g

DrawSupernovaFlash(g) ==
    IF g.universe.supernovaFlash > 0
      THEN [g EXCEPT !.universe.supernovaFlash = @ - 2]
      ELSE g

\* the BIG_BANG block: bigBangTimer -= 1, changeState(STAR_FORMATION) at <= 0
DrawBigBang(g) ==
    IF g.currentState = "BIG_BANG"
      THEN IF g.universe.bigBangTimer - 1 <= 0
             THEN ChangeState([g EXCEPT !.universe.bigBangTimer = @ - 1],
                              "STAR_FORMATION", NoDust)
             ELSE [g EXCEPT !.universe.bigBangTimer = @ - 1]
      ELSE g

\* Universe.draw(); nearD, nearE: the dust and effect particles found within the
\* capture radius; rnd: the random draws of a death burst
UniverseDraw(g, nearD, nearE, rnd) ==
    IF /\ g.currentState = "STAR_FORMATION"
       /\ g.universe.targetStar = Null
       /\ Len(g.universe.dustParticles) + Len(g.universe.effectParticles) > 0
      THEN \* Particle.update reads universe.targetStar.pos
           [DrawEffects(g) EXCEPT !.uncaught = TRUE]
      ELSE DrawBigBang(DrawSupernovaFlash(DrawStar(
               DrawEffectParticles(DrawDust(DrawEffects(g), nearD), nearE), rnd)))

\* FormationTimer that restarts the timer at 0 without changing the state
FormationTimerNoAdvance(g) ==
    IF g.uncaught THEN g
    ELSE IF g.currentState = "STAR_FORMATION"
      THEN LET t == (IF g.formationTimer = 0 THEN 300 ELSE g.formationTimer) - 1
           IN  [g EXCEPT !.formationTimer = IF t <= 0 THEN 300 ELSE t]
    ELSE g

\* draw(), after universe.draw(): the formation timer
FormationTimer(g) ==
    IF g.uncaught THEN g
    ELSE IF g.currentState = "STAR_FORMATION"
      THEN LET t == (IF g.formationTimer = 0 THEN 300 ELSE g.formationTimer) - 1
           IN  IF t <= 0
                 THEN ChangeState([g EXCEPT !.formationTimer = 300],
                                  "OBSERVATION", NoDust)
                 ELSE [g EXCEPT !.formationTimer = t]
    ELSE g

\* draw()
Draw(g, nearD, nearE, rnd) == FormationTimer(UniverseDraw(g, nearD, nearE, rnd))

-----------------------------------------------------------------------------
(* Inputs *)

\* the canvas position of a click
Positions == {[x |-> 100, y |-> 100]}

\* slider-mass values: one per death branch
Masses == {20, 70, 95}

\* slider-mass values of the run without further user events: the whole range
AutoMasses == 0..100

\* slider-instability values
Instabilities == {80}

\* random(100, 255) of a dust particle's alpha, in tenths: the low end, and
\* both ends in the run without further user events
DustAlphas == {1000}

AutoDustAlphas == {1000, 2550}

\* the particles of ps that may be found within the capture radius: only a
\* STAR_FORMATION update looks. A particle's random position and velocity
\* decide it; the model draws two orbits, within the radius from the first
\* seeking update on, or outside it for the whole formation phase
NearChoices(ps) ==
    IF currentState = "STAR_FORMATION"
      THEN SUBSET {ps[i].id : i \in {j \in 1..Len(ps) : ~ps[j].seeking}}
      ELSE {{}}

\* this frame's Star.draw calls handleEndSequence
WillResolve ==
    /\ universe.targetStar # Null
    /\ ~Val(universe.targetStar).dead
    /\ \/ currentState = "OBSERVATION" /\ Val(universe.targetStar).life <= 1
       \/ currentState = "END" /\ ~Val(universe.targetStar).exploded

NoBurst == [a |-> [i \in 1..EffectCount |-> 0], d |-> [i \in 1..EffectCount |-> 0]]

\* the random draws of a death burst, where one happens
BurstDraws ==
    IF WillResolve
      THEN [a : [1..EffectCount -> {0, 1}], d : [1..EffectCount -> {0, 1}]]
      ELSE {NoBurst}

-----------------------------------------------------------------------------
(* Handlers *)

\* the scene waits for the user
Waiting == {"INIT", "SELECT_POSITION", "SET_PARAMETERS", "END"}

\* a button can be clicked while the screen element that holds it is active
ButtonShown(key) == screens[key]

\* one animation frame: draw()
Frame(maxIdle) ==
    /\ currentState \in Waiting => idle < maxIdle
    /\ \E nearD \in NearChoices(universe.dustParticles),
          nearE \in NearChoices(universe.effectParticles),
          rnd \in BurstDraws :
          Becomes(Draw(Enter(Program), nearD, nearE, rnd), "draw")
    /\ idle' = IF currentState \in Waiting THEN idle + 1 ELSE idle
    /\ tick' = 1 - tick
    /\ UNCHANGED <<targetPos, pending, starsMade>>

\* click on #btn-start
BtnStart ==
    /\ ButtonShown("INIT")
    /\ Becomes(ChangeState(Enter(Program), "SELECT_POSITION", NoDust), "btn-start")
    /\ idle' = 0
    /\ tick' = 0
    /\ UNCHANGED <<targetPos, pending, starsMade>>

\* mousePressed()
MousePressed(maxPending) ==
    /\ currentState = "SELECT_POSITION"
    /\ pending < maxPending
    /\ \E pos \in Positions : targetPos' = Some(pos)
    /\ pending' = pending + 1
    /\ Becomes(Enter(Program), "mousePressed")
    /\ idle' = 0
    /\ tick' = 0
    /\ UNCHANGED starsMade

\* the callback mousePressed passed to setTimeout
Timeout ==
    /\ pending > 0
    /\ pending' = pending - 1
    /\ LET g == ChangeState(Enter(Program), "SET_PARAMETERS", NoDust)
       IN  Becomes([g EXCEPT !.handoffs = @ + 1], "timeout")
    /\ idle' = 0
    /\ tick' = 0
    /\ UNCHANGED <<targetPos, starsMade>>

\* BtnObserve that calls changeState(BIG_BANG) without constructing the Star
BtnObserveNoStar(masses, maxStars, dustAlphas) ==
    /\ ButtonShown("SET_PARAMETERS")
    /\ starsMade < maxStars
    /\ idle' = 0
    /\ tick' = 0
    /\ starsMade' = starsMade + 1
    /\ UNCHANGED <<targetPos, pending>>
    /\ \E alphas \in [1..DustCount -> dustAlphas] :
          Becomes(ChangeState([Enter(Program) EXCEPT !.path = <<>>],
                              "BIG_BANG", alphas), "btn-observe")

\* click on #btn-observe
BtnObserve(masses, maxStars, dustAlphas) ==
    /\ ButtonShown("SET_PARAMETERS")
    /\ starsMade < maxStars
    /\ idle' = 0
    /\ tick' = 0
    /\ UNCHANGED <<targetPos, pending>>
    /\ IF targetPos = Null
         THEN \* targetPos.x throws before the Star is constructed
              /\ Becomes([Enter(Program) EXCEPT !.uncaught = TRUE], "btn-observe")
              /\ UNCHANGED starsMade
         ELSE \E mass \in masses, instability \in Instabilities,
                 alphas \in [1..DustCount -> dustAlphas] :
                 LET star == NewStar(Val(targetPos), mass, instability,
                                     universe.heritageColor, starsMade + 1)
                     g    == [Enter(Program) EXCEPT
                                 !.universe.targetStar = Some(star),
                                 !.path = <<>>]
                 IN  /\ Becomes(ChangeState(g, "BIG_BANG", alphas), "btn-observe")
                     /\ starsMade' = starsMade + 1

\* BtnRestart that also clears universe.heritageColor
BtnRestartClearsHeritage ==
    /\ ButtonShown("END")
    /\ targetPos' = Null
    /\ LET g == [Enter(Program) EXCEPT
                   !.universe.targetStar = Null,
                   !.universe.dustParticles = <<>>,
                   !.universe.effectParticles = <<>>,
                   !.universe.whiteDwarf = Null,
                   !.universe.blackHoleEffect = Null,
                   !.universe.heritageColor = Null,
                   !.universe.bgBrightness = 10]
       IN  Becomes(ChangeState(g, "INIT", NoDust), "btn-restart")
    /\ idle' = 0
    /\ tick' = 0
    /\ UNCHANGED <<pending, starsMade>>

\* click on #btn-restart
BtnRestart ==
    /\ ButtonShown("END")
    /\ targetPos' = Null
    /\ LET g == [Enter(Program) EXCEPT
                   !.universe.targetStar = Null,
                   !.universe.dustParticles = <<>>,
                   !.universe.effectParticles = <<>>,
                   !.universe.whiteDwarf = Null,
                   !.universe.blackHoleEffect = Null,
                   !.universe.bgBrightness = 10]
       IN  Becomes(ChangeState(g, "INIT", NoDust), "btn-restart")
    /\ idle' = 0
    /\ tick' = 0
    /\ UNCHANGED <<pending, starsMade>>

-----------------------------------------------------------------------------
(* Specifications *)

\* after setup(): the page shows the INIT screen
Init ==
    /\ currentState = "INIT"
    /\ targetPos = Null
    /\ screens = [s \in ScreenKeys |-> s = "INIT"]
    /\ universe = NewUniverse
    /\ endMessage = ""
    /\ formationTimer = 0
    /\ pending = 0
    /\ uncaught = FALSE
    /\ log = <<>>
    /\ path = <<>>
    /\ handoffs = 0
    /\ sweep = <<>>
    /\ handler = "setup"
    /\ starsMade = 0
    /\ idle = 0
    /\ tick = 0

\* any interleaving of frames, user events and timeout callbacks
Next ==
    \/ Frame(MaxIdle)
    \/ BtnStart
    \/ MousePressed(MaxPending)
    \/ Timeout
    \/ BtnObserve(Masses, MaxStars, DustAlphas)
    \/ BtnRestart

Spec == Init /\ [][Next]_vars

\* one star, one canvas click, no user event after the confirmation; frames
\* keep coming
NextAuto ==
    \/ Frame(AutoIdle)
    \/ BtnStart
    \/ MousePressed(1)
    \/ Timeout
    \/ BtnObserve(AutoMasses, 1, AutoDustAlphas)

\* the browser calls draw() again: a frame is due whenever Frame is enabled,
\* and only Frame makes this step
FrameDue(maxIdle) ==
    /\ currentState \in Waiting => idle < maxIdle
    /\ handler' = "draw"
    /\ tick' = 1 - tick

SpecAuto == Init /\ [][NextAuto]_vars /\ WF_<<handler, tick>>(FrameDue(AutoIdle))

-----------------------------------------------------------------------------
(* The scene state machine *)

star == universe.targetStar

\* the death-branch operations the Star owned in u has called
Branches(u) == IF u.targetStar = Null THEN <<>> ELSE Val(u.targetStar).branches

\* the edges of the scene state machine, BLACK_HOLE_SINK included
SceneEdges ==
    {<<"INIT", "SELECT_POSITION">>,
     <<"SELECT_POSITION", "SET_PARAMETERS">>,
     <<"SET_PARAMETERS", "BIG_BANG">>,
     <<"BIG_BANG", "STAR_FORMATION">>,
     <<"STAR_FORMATION", "OBSERVATION">>,
     <<"OBSERVATION", "END">>,
     <<"OBSERVATION", "BLACK_HOLE_SINK">>,
     <<"BLACK_HOLE_SINK", "END">>,
     <<"END", "INIT">>}

\* C1: every change of currentState made by a handler follows an edge of the
\* scene state machine, whatever the interleaving of frames, user events and
\* timeout callbacks.
C1_OnlySceneEdges ==
    \A i \in 1..Len(log) : log[i][1] # log[i][2] => log[i] \in SceneEdges

\* C2: the click -> parameter-screen handoff is one-shot: of the callbacks
\* scheduled by the clicks of one SELECT_POSITION phase, at most one performs
\* changeState(SET_PARAMETERS).
C2_OneShotHandoff == handoffs <= 1

\* C3: the scene leaves OBSERVATION only for END and only when the owned
\* Star's life has reached 0, and a Star requests END at most once.
C3_LeavesObservationAtLifeZero ==
    /\ \A i \in 1..Len(log) :
          log[i][1] = "OBSERVATION" =>
             /\ log[i][2] = "END"
             /\ star # Null
             /\ Val(star).life <= 0
    /\ star # Null => Val(star).endRequests <= 1

\* C4: the scene leaves STAR_FORMATION only for OBSERVATION, when the timer
\* has run out, and every entry into STAR_FORMATION starts the timer from its
\* full value 300: after the frame that enters, which ticks once, it is 299.
C4_FormationTimerFull ==
    \A i \in 1..Len(log) :
       /\ log[i][1] = "STAR_FORMATION" =>
             log[i][2] = "OBSERVATION" /\ formationTimer = 300
       /\ (log[i][2] = "STAR_FORMATION" /\ i = Len(log)) => formationTimer = 299
       /\ (log[i][2] = "STAR_FORMATION" /\ i < Len(log)) => FALSE

-----------------------------------------------------------------------------
(* Death of the Star *)

\* C5: the death branch is decided by the star's mass alone: mass > 85 calls
\* gravityCollapse, 40 < mass <= 85 calls supernova, mass <= 40 calls
\* nebulaRelease, and the Universe shows that branch's effect.
C5_BranchByMass ==
    (star # Null /\ Val(star).exploded) =>
       LET m == Val(star).mass
           b == Val(star).branches
       IN  /\ Len(b) = 1
           /\ (m > 85) <=> (b[1] = "gravityCollapse")
           /\ (40 < m /\ m <= 85) <=> (b[1] = "supernova")
           /\ (m <= 40) <=> (b[1] = "nebulaRelease")
           /\ (m > 85) <=> (universe.blackHoleEffect # Null)
           /\ (40 < m /\ m <= 85) <=> (universe.bgBrightness = 25)
           /\ (m <= 40) <=> (universe.whiteDwarf # Null)

\* the star of mass 85, the upper threshold itself, has died as a supernova
C5_Witness ==
    /\ star # Null
    /\ Val(star).mass = 85
    /\ Val(star).branches = <<"supernova">>

\* C6: once a Star has resolved its death branch (it has called a death-branch
\* operation, which sets exploded), a further frame in END calls no
\* death-branch operation, spawns no effect particle and deposits no remnant.
C6_ResolvesOnce ==
    [][(/\ currentState = "END"
        /\ Branches(universe) # <<>>
        /\ handler' = "draw")
       => /\ Val(star).exploded
          /\ Len(Val(star).branches) = 1
          /\ Branches(universe') = Branches(universe)
          /\ Len(universe'.effectParticles) <= Len(universe.effectParticles)
          /\ Len(universe'.remnants) <= Len(universe.remnants)]_vars

\* five frames have been drawn in END after the resolution
C6_Witness ==
    /\ currentState = "END"
    /\ star # Null
    /\ Val(star).exploded
    /\ idle >= 5

\* C7: for a star of mass 95 the scene states entered after the confirmation
\* are BIG_BANG, STAR_FORMATION, OBSERVATION, BLACK_HOLE_SINK, END.
C7_PassesBlackHoleSink ==
    (currentState = "END" /\ star # Null /\ Val(star).mass = 95) =>
       path = <<"BIG_BANG", "STAR_FORMATION", "OBSERVATION", "BLACK_HOLE_SINK", "END">>

\* C8: while the scene is in BIG_BANG, STAR_FORMATION, OBSERVATION or END the
\* Universe owns a Star.
C8_StarOwned ==
    currentState \in {"BIG_BANG", "STAR_FORMATION", "OBSERVATION", "END"}
       => star # Null

\* the second Star's BIG_BANG, entered after a restart or a late callback
C8_Witness ==
    /\ currentState = "BIG_BANG"
    /\ starsMade = 2
    /\ star # Null

-----------------------------------------------------------------------------
(* Particles and screen shake *)

Ids(ps) == {ps[i].id : i \in 1..Len(ps)}

\* the calls of a sweep log made on collection coll
CallsOn(calls, coll) == {i \in 1..Len(calls) : calls[i].coll = coll}

\* the sweep over collection before, logged in calls, left after: every
\* particle updated exactly once, none drawn or kept with alpha <= 0
SweptOnce(before, calls, coll, after) ==
    /\ Cardinality(CallsOn(calls, coll)) = Len(before)
    /\ \A i \in 1..Len(before) :
          \E j \in CallsOn(calls, coll) :
             calls[j].id = before[i].id /\ calls[j].before = before[i].alpha
    /\ \A j \in CallsOn(calls, coll) :
          /\ calls[j].alpha <= calls[j].before
          /\ calls[j].drawn <=> (calls[j].alpha > 0)
          /\ (calls[j].alpha > 0) <=> (calls[j].id \in Ids(after))

\* C9: in every frame's sweep each dust and effect particle is updated exactly
\* once, its alpha does not increase, it is drawn only with alpha > 0, and it
\* is removed in that sweep when its alpha is <= 0: none with alpha <= 0 is
\* left in either collection.
C9_SweepRemovesDead ==
    [][(handler' = "draw" /\ ~uncaught')
       => /\ SweptOnce(universe.dustParticles, sweep', "dust",
                       universe'.dustParticles)
          /\ SweptOnce(universe.effectParticles, sweep', "effect",
                       universe'.effectParticles)
          /\ \A i \in 1..Len(universe'.dustParticles) :
                universe'.dustParticles[i].alpha > 0
          /\ \A i \in 1..Len(universe'.effectParticles) :
                universe'.effectParticles[i].alpha > 0]_vars

\* a sweep has removed one dust particle and kept the other
C9_Witness ==
    /\ handler = "draw"
    /\ Len(universe.dustParticles) = 1
    /\ \E j \in CallsOn(sweep, "dust") : sweep[j].alpha <= 0

\* C10: in a frame that does not call shake, a positive shake magnitude
\* decreases to 0.94 of its value, or to exactly 0 when that is below 0.1; it
\* is never negative and 0 stays 0; and a positive magnitude leads to 0.
C10_ShakeDecays ==
    /\ [][(handler' = "draw"
           /\ Branches(universe') = Branches(universe))
          => LET a == universe.shakeAmount
                 b == universe'.shakeAmount
             IN  /\ b >= 0
                 /\ a = 0 => b = 0
                 /\ a > 0 => b < a
                 /\ b = 0 \/ b >= 100
                 /\ 100 * b <= 94 * a
                 /\ b > 0 => 100 * b > 94 * a - 100
                 /\ 94 * a < 100 * 100 => b = 0]_vars
    /\ (universe.shakeAmount > 0) ~> (universe.shakeAmount = 0)

\* shake(50) of the black-hole branch has decayed to 0
C10_Witness ==
    /\ star # Null
    /\ Val(star).branches = <<"gravityCollapse">>
    /\ universe.shakeAmount = 0

-----------------------------------------------------------------------------
(* Growth of the Star *)

\* C11: the owned Star's growth is clamped: size never exceeds targetSize and
\* currentAlpha never exceeds maxAlpha.
C11_GrowthClamped ==
    star # Null =>
       /\ Val(star).size <= Val(star).targetSize
       /\ Val(star).currentAlpha <= Val(star).maxAlpha

-----------------------------------------------------------------------------
(* What a Star leaves to the Universe *)

\* C12: bgBrightness is a ratchet: no step of the program decreases it, and it
\* never exceeds its cap 25.
C12_BrightnessRatchet ==
    /\ [](universe.bgBrightness <= 25)
    /\ [][universe'.bgBrightness >= universe.bgBrightness]_vars

\* C13: universe.heritageColor changes only in a frame in which the owned Star
\* calls its death-branch operation; that call happens at most once per Star
\* and assigns the Star's baseColor, whatever the branch; once set, the
\* heritage color is never null again.
C13_HeritageAtResolution ==
    [][/\ universe'.heritageColor # universe.heritageColor
            => /\ handler' = "draw"
               /\ Len(Branches(universe')) > Len(Branches(universe))
       /\ Len(Branches(universe')) > Len(Branches(universe))
            => /\ Len(Branches(universe')) = 1
               /\ universe'.heritageColor = Some(Val(universe'.targetStar).baseColor)
       /\ universe.heritageColor # Null => universe'.heritageColor # Null]_vars

\* the second Star, coloured by the first one's heritage, has resolved its
\* death branch and left its own colour
C13_Witness ==
    /\ star # Null
    /\ Val(star).serial = 2
    /\ Len(Val(star).branches) = 1
    /\ Val(star).baseColor # CalculateStarColor(Val(star).mass, Null)
    /\ universe.heritageColor = Some(Val(star).baseColor)

\* C14: the end-of-life message set on entering END is the one of the death
\* branch the Star resolves: MSG_DUTY iff gravityCollapse, MSG_SEEDS iff
\* supernova, MSG_QUIET iff nebulaRelease.
C14_MessageMatchesBranch ==
    Branches(universe) # <<>> =>
       LET b == Branches(universe)[1]
       IN  /\ endMessage \in {"MSG_DUTY", "MSG_SEEDS", "MSG_QUIET"}
           /\ (endMessage = "MSG_DUTY") <=> (b = "gravityCollapse")
           /\ (endMessage = "MSG_SEEDS") <=> (b = "supernova")
           /\ (endMessage = "MSG_QUIET") <=> (b = "nebulaRelease")

\* the star of mass 40, the lower threshold itself, got the nebula message and
\* the nebula branch
C14_Witness ==
    /\ star # Null
    /\ Val(star).mass = 40
    /\ Val(star).branches = <<"nebulaRelease">>
    /\ endMessage = "MSG_QUIET"

-----------------------------------------------------------------------------
(* The scene advances on its own *)

-----------------------------------------------------------------------------
(* Star.constructor *)

\* C16: targetSize (15 + 0.45 * mass, in hundredths) and the initial life
\* (800 + 12 * mass) of a constructed Star are non-decreasing in mass: no
\* lighter star would have been given a larger target size or a longer life
\* than the Star btn-observe constructed; life is 800 at mass 0 and 2000 at
\* mass 100.
C16_MonotoneInMass ==
    (handler = "btn-observe" /\ star # Null) =>
       LET s == Val(star)
       IN  /\ s.targetSize = 1500 + 45 * s.mass
           /\ s.life = 800 + 12 * s.mass
           /\ s.mass = 0 => s.life = 800
           /\ s.mass = 100 => s.life = 2000
           /\ \A m \in AutoMasses :
                 LET t == NewStar(s.pos, m, s.instability, Null, s.serial)
                 IN  /\ m <= s.mass => (t.targetSize <= s.targetSize /\ t.life <= s.life)
                     /\ m >= s.mass => (t.targetSize >= s.targetSize /\ t.life >= s.life)

\* the heaviest star as constructed: target size 60, life 2000
C16_Witness ==
    /\ handler = "btn-observe"
    /\ star # Null
    /\ Val(star).mass = 100
    /\ Val(star).targetSize = 6000
    /\ Val(star).life = 2000

-----------------------------------------------------------------------------
(* Restart *)

\* C17: the restart handler resets the transient per-star state and nothing
\* else: afterwards targetPos and targetStar are null, the dust and effect
\* collections are empty, whiteDwarf and blackHoleEffect are null and the
\* scene is in INIT; the remnants, the heritage color, the background stars
\* and every other field of the Universe are as they were.
C17_RestartResetsTransient ==
    [][handler' = "btn-restart" =>
          /\ currentState' = "INIT"
          /\ targetPos' = Null
          /\ universe'.targetStar = Null
          /\ universe'.dustParticles = <<>>
          /\ universe'.effectParticles = <<>>
          /\ universe'.whiteDwarf = Null
          /\ universe'.blackHoleEffect = Null
          /\ universe'.remnants = universe.remnants
          /\ universe'.heritageColor = universe.heritageColor
          /\ universe'.bgStars = universe.bgStars
          /\ universe'.bgBrightness = universe.bgBrightness
          /\ universe'.shakeAmount = universe.shakeAmount
          /\ universe'.supernovaFlash = universe.supernovaFlash
          /\ universe'.bigBangTimer = universe.bigBangTimer
          /\ formationTimer' = formationTimer
          /\ endMessage' = endMessage]_vars

-----------------------------------------------------------------------------
(* End of the formation *)

\* C18: when the scene leaves STAR_FORMATION for OBSERVATION the Star has
\* finished growing: its size has reached targetSize and its currentAlpha has
\* reached maxAlpha.
C18_GrownAtObservation ==
    (\E i \in 1..Len(log) : log[i] = <<"STAR_FORMATION", "OBSERVATION">>) =>
       /\ star # Null
       /\ Val(star).size >= Val(star).targetSize
       /\ Val(star).currentAlpha >= Val(star).maxAlpha

-----------------------------------------------------------------------------
(* Frame boundaries *)

\* C19: after every handler, and so after every complete draw pass, a scene
\* in END owns a Star that has resolved its death branch: exploded and dead
\* are set and one death-branch operation has been called. The frame that
\* takes life to 0 resolves it itself.
C19_EndMeansResolved ==
    currentState = "END" =>
       /\ star # Null
       /\ Val(star).exploded
       /\ Val(star).dead
       /\ Len(Val(star).branches) = 1

\* the frame that requested END has, in the same pass, resolved the branch
C19_Witness ==
    /\ handler = "draw"
    /\ log = <<<<"OBSERVATION", "END">>>>
    /\ star # Null
    /\ Val(star).life = 0
    /\ Val(star).exploded
    /\ Val(star).dead
    /\ Len(universe.effectParticles) = EffectCount

====
